---- MODULE Spec2Model ----
(***************************************************************************)
(* Model of the student-model lifecycle of the gesture-intent pipeline:    *)
(* the offline trainer (scripts/train_student.py: regression gate,         *)
(* registry writes, audit log) and the serving runtime                     *)
(* (student/service.py: lazy hot reload, predict and status handlers run   *)
(* by concurrent request threads of the Flask server).                     *)
(*                                                                         *)
(* Files are modelled by what a reader finds in them: "absent", "partial"  *)
(* (opened for writing and not yet completely written: joblib.dump and     *)
(* Path.write_text both truncate in place and then stream the content) or  *)
(* "complete".  A reader of a partial pickle or JSON document gets an      *)
(* exception.  Accuracies are whole percentage points; probabilities are   *)
(* thousandths.  Python's None is None.                                    *)
(***************************************************************************)
EXTENDS Integers, Sequences, FiniteSets, TLC

\* ------------------------------------------------------------------ bounds
MaxRuns == 3
ServeRuns == 2
NumClassifiers == 3
NumInputs == 2
MaxRequests == 2
NumClips == 8
MaxResults == 2
MaxLines == 2
MaxLogFiles == 2
NumTest == 10
MaxClipFiles == 2
MaxSessionClips == 1

\* --------------------------------------------------------------- constants
None == -1
MIN_SAMPLES == 20
REGRESS_LIMIT == 2

Threads == {1, 2}
Classifiers == 1..NumClassifiers
Inputs == 1..NumInputs
VersionNames == 0..MaxRuns
EventCounts == {MIN_SAMPLES - 1, MIN_SAMPLES}

\* A fitted classifier is opaque; it is known by what it scores on the frozen
\* calibration set and by what it answers on an encoded input.
CalibAccTable == <<90, 89, 87, 88, 86>>
CalibAcc(m) == IF m <= Len(CalibAccTable) THEN CalibAccTable[m] ELSE 91 - m

\* predict_proba: probability of class 1 (intentional), in thousandths.
ProbaIntentional(m, x) == (300 * m + 170 * x) % 1000

\* clf.predict(x)[0] as a bool: the class of highest probability.
ModelPredict(m, x) == ProbaIntentional(m, x) >= 500

\* round(float(max(proba)), 3), in thousandths.
ModelConf(m, x) ==
    IF ProbaIntentional(m, x) >= 500 THEN ProbaIntentional(m, x)
    ELSE 1000 - ProbaIntentional(m, x)

NoBundle == [model |-> None, version |-> None, calib_accuracy |-> None,
             feature_names |-> <<>>]
AbsentFile == [state |-> "absent", data |-> NoBundle]
PartialFile == [state |-> "partial", data |-> NoBundle]
CompleteFile(b) == [state |-> "complete", data |-> b]

VARIABLES
    training_inputs, \* per run: what the logs of that day distil and fit to
    versioned,      \* models/student/v{N}_model.joblib, by N
    current,        \* models/student/current_model.joblib, with its mtime
    training_log,   \* models/student/training_log.json
    calibration,    \* data/calibration/calibration.jsonl
    tpc,            \* the training run's position in main()
    tr,             \* the training run's locals
    runs,           \* training runs started
    passed,         \* history: the candidates that passed the gate, in order
    pre,            \* history: the registry as the running run found it
    STUDENT_MODE,   \* the service's mode, read from the environment at start
    model,          \* service global _model: a classifier or None
    model_mtime,    \* service global _model_mtime
    model_version,  \* service global _model_version
    total_preds,    \* service global _total_preds
    nreq,           \* requests received
    th,             \* per request thread: position and locals
    resp,           \* per request thread: the response being returned
    corpus,         \* which recorded clips the evaluation harness is run on
    eval_results,   \* data/eval/results/eval_results.json: its "results"
    calib_records,  \* data/calibration/calibration.jsonl: its lines
    build,          \* the last calibration build: what it read and counted
    call,           \* a function applied on its own: its name and arguments
    ret             \* ... and what it returned

tvars == <<training_inputs, versioned, current, training_log, calibration, tpc, tr,
           runs, passed, pre>>
svars == <<STUDENT_MODE, model, model_mtime, model_version, total_preds, nreq, th, resp>>
bvars == <<corpus, eval_results, calib_records, build>>
fvars == <<call, ret>>
vars == <<training_inputs, versioned, current, training_log, calibration, tpc, tr,
          runs, passed, pre,
          STUDENT_MODE, model, model_mtime, model_version, total_preds, nreq, th, resp,
          corpus, eval_results, calib_records, build, call, ret>>

NoRun == [n_events |-> 0, new_model |-> None, calib_loaded |-> FALSE,
          current_existed |-> FALSE,
          calib_acc_new |-> None, calib_acc_old |-> None,
          version_num |-> None, outcome |-> "none", exit_code |-> None,
          split_from |-> {}]

IdleThread == [pc |-> "idle", kind |-> "none", mtime |-> None, data |-> NoBundle,
               x |-> None, pred |-> FALSE, conf |-> None, count |-> None,
               issued |-> None, absent_at |-> None]
\* A response: the JSON fields, and for the record the request it answers
\* (request, x, issued: the version current_model.joblib held when the request
\* arrived; absent_at: if there was no such file then, the file's last mtime)
\* and the model's raw verdict (pred).
NoResponse == [kind |-> "none", execute |-> TRUE, confidence |-> None,
               model_version |-> None, model_loaded |-> FALSE,
               total_predictions |-> None,
               request |-> "none", x |-> None, pred |-> FALSE, issued |-> None,
               absent_at |-> None]

\* No calibration build has run: accepted = [], the three counters 0.  (ran,
\* results, before: that a build ran, the results it read and the lines
\* calibration.jsonl held when it started.)
NoBuild == [ran |-> FALSE, results |-> <<>>, before |-> <<>>, accepted |-> <<>>,
            skipped_error |-> 0, skipped_disagree |-> 0, skipped_no_feat |-> 0]

\* No function is being applied.
NoCall == [fn |-> "none"]

Registry == [versioned |-> versioned, current |-> current, training_log |-> training_log]

\* Nothing trained yet, the service just started.
InitState ==
    /\ versioned = [v \in VersionNames |-> AbsentFile]
    /\ current = [state |-> "absent", data |-> NoBundle, mtime |-> 0]
    /\ training_log = [state |-> "absent", records |-> <<>>]
    /\ calibration = "absent"
    /\ tpc = "idle"
    /\ tr = NoRun
    /\ runs = 0
    /\ passed = <<>>
    /\ pre = Registry
    /\ model = None
    /\ model_mtime = None
    /\ model_version = None
    /\ total_preds = 0
    /\ nreq = 0
    /\ th = [t \in Threads |-> IdleThread]
    /\ resp = [t \in Threads |-> NoResponse]
    /\ eval_results = [exists |-> FALSE, results |-> <<>>]
    /\ calib_records = <<>>
    /\ build = NoBuild
    /\ ret = NoCall

\* The training job: every sequence of log contents, the service in its
\* default mode.
Init ==
    /\ training_inputs \in [1..MaxRuns -> [n_events : EventCounts, fit : Classifiers]]
    /\ STUDENT_MODE = "shadow"
    /\ corpus = "few"
    /\ call = NoCall
    /\ InitState

\* The service in either mode, beside training runs of which the last
\* ServeRuns have enough events, each fitting another classifier, and the
\* earlier ones stop at the sample gate.
InitServe ==
    /\ training_inputs = [k \in 1..MaxRuns |->
                            [n_events |-> IF k > MaxRuns - ServeRuns THEN MIN_SAMPLES
                                          ELSE MIN_SAMPLES - 1,
                             fit |-> ((k - 1) % NumClassifiers) + 1]]
    /\ STUDENT_MODE \in {"shadow", "active"}
    /\ corpus = "few"
    /\ call = NoCall
    /\ InitState

\* ------------------------------------------------------------ feature encoding
\* scripts/train_student.py
FEATURE_NAMES ==
    <<"swipeDisplacement", "swipeDuration", "peakVelocity",
      "fingersExtended", "handSide", "handSpan",
      "wristX", "wristY", "palmFacing",
      "wristVelocityX", "wristVelocityY", "stateConfidence">>
GESTURE_TYPES == <<"OPEN_MENU", "CLOSE_MENU", "SWITCH_RIGHT", "SWITCH_LEFT">>

STUDENT_FEATURE_NAMES_Swapped ==
    <<"swipeDuration", "swipeDisplacement", "peakVelocity",
      "fingersExtended", "handSide", "handSpan",
      "wristX", "wristY", "palmFacing",
      "wristVelocityX", "wristVelocityY", "stateConfidence">>

\* student/service.py
STUDENT_FEATURE_NAMES ==
    <<"swipeDisplacement", "swipeDuration", "peakVelocity",
      "fingersExtended", "handSide", "handSpan",
      "wristX", "wristY", "palmFacing",
      "wristVelocityX", "wristVelocityY", "stateConfidence">>
STUDENT_GESTURE_TYPES == <<"OPEN_MENU", "CLOSE_MENU", "SWITCH_RIGHT", "SWITCH_LEFT">>

\* A feature bag is a JSON object of named numbers: a function from the names
\* it holds to number literals.  Floating-point numbers of the model are
\* counted in units of 10^-9, which tells a double from its float32 rounding.
ValueLiterals == {"0.1", "2"}

\* float(v): the double nearest the literal
Float(v) ==
    CASE v = "0.1" -> 100000000
      [] v = "2" -> 2000000000

\* dtype=np.float32: the nearest single-precision number.  0.1 becomes
\* 0.100000001490116; 0.0, 1.0 and 2.0 are single-precision numbers.
Float32(x) == IF x = 100000000 THEN 100000001 ELSE x

GetMissingAsOne(features, n) ==
    IF n \in DOMAIN features THEN Float(features[n]) ELSE 1000000000

\* float(features.get(n, 0.0))
Get(features, n) == IF n \in DOMAIN features THEN Float(features[n]) ELSE 0

\* features_to_row of train_student.py: numeric + onehot
features_to_row(features, gesture_type) ==
    LET numeric == [i \in 1..Len(FEATURE_NAMES) |-> Get(features, FEATURE_NAMES[i])]
        onehot == [i \in 1..Len(GESTURE_TYPES) |->
                      IF gesture_type = GESTURE_TYPES[i] THEN 1000000000 ELSE 0]
    IN numeric \o onehot

\* build_matrix of train_student.py: one row per event, as float32
build_matrix(events) ==
    [e \in 1..Len(events) |->
        LET row == features_to_row(events[e].features, events[e].gesture_type)
        IN [i \in 1..Len(row) |-> Float32(row[i])]]

\* _features_to_vector of service.py:
\* np.array(numeric + onehot, dtype=np.float32).reshape(1, -1), a matrix of one row
features_to_vector(features, gesture_type) ==
    LET numeric == [i \in 1..Len(STUDENT_FEATURE_NAMES) |->
                       Get(features, STUDENT_FEATURE_NAMES[i])]
        onehot == [i \in 1..Len(STUDENT_GESTURE_TYPES) |->
                      IF gesture_type = STUDENT_GESTURE_TYPES[i] THEN 1000000000 ELSE 0]
        row == numeric \o onehot
    IN <<[i \in 1..Len(row) |-> Float32(row[i])]>>

\* f"gesture_{g}"
GestureColumn(g) ==
    CASE g = "OPEN_MENU" -> "gesture_OPEN_MENU"
      [] g = "CLOSE_MENU" -> "gesture_CLOSE_MENU"
      [] g = "SWITCH_RIGHT" -> "gesture_SWITCH_RIGHT"
      [] g = "SWITCH_LEFT" -> "gesture_SWITCH_LEFT"

\* feature_col_names = FEATURE_NAMES + [f"gesture_{g}" for g in GESTURE_TYPES]
feature_col_names ==
    FEATURE_NAMES \o [i \in 1..Len(GESTURE_TYPES) |-> GestureColumn(GESTURE_TYPES[i])]

\* The bags and gesture types the encoders are applied to: every set of the
\* named features and of one key that is no named feature, the values an
\* integer or a fraction; the known gesture types, an unknown one and None.
BagKeys == {FEATURE_NAMES[i] : i \in 1..Len(FEATURE_NAMES)} \cup {"gestureType"}
FeatureBags == UNION {[K -> {v}] : K \in SUBSET BagKeys, v \in ValueLiterals}
GestureTypeValues ==
    {GESTURE_TYPES[i] : i \in 1..Len(GESTURE_TYPES)} \cup {"WAVE", "None"}

\* Both encoders applied to the same feature bag and gesture type: the row
\* features_to_row returns, the matrix build_matrix makes of that one event,
\* and the vector the service hands to the model.
Encode ==
    /\ call.fn = "encode"
    /\ ret = NoCall
    /\ ret' = [fn |-> call.fn,
               row |-> features_to_row(call.features, call.gesture_type),
               matrix |-> build_matrix(<<[features |-> call.features,
                                          gesture_type |-> call.gesture_type]>>),
               vector |-> features_to_vector(call.features, call.gesture_type)]
    /\ UNCHANGED <<call, tvars, svars, bvars>>

\* ------------------------------------------------- scripts/build_calibration.py
\* JSON values are written as JSON writes them: "true", "false", "null".
TP_LABELS == {"TP_OPEN_MENU", "TP_CLOSE_MENU", "TP_SWITCH_RIGHT", "TP_SWITCH_LEFT"}

LABEL_TO_INTENT ==
    [l \in TP_LABELS |->
        CASE l = "TP_OPEN_MENU" -> "OPEN_MENU"
          [] l = "TP_CLOSE_MENU" -> "CLOSE_MENU"
          [] l = "TP_SWITCH_RIGHT" -> "SWITCH_RIGHT"
          [] l = "TP_SWITCH_LEFT" -> "SWITCH_LEFT"]

\* The labels of the recorder that start with "NEG_", and one that is neither
\* positive nor negative.
NegLabels == {"NEG_WAVE", "NEG_OTHER"}
OtherLabels == {"TEST_CLIP"}

\* The recorded clips, by clip_id: NumClips clips recorded with features, every
\* second one with no gesture detected, one clip recorded without features and
\* one id that no clip file holds.
ClipIds == 1..(NumClips + 2)
NoFeatureClip == NumClips + 1
UnknownClip == NumClips + 2

\* load_clips_by_id
clips_by_id ==
    [c \in ClipIds \ {UnknownClip} |->
        [clip_id |-> c,
         features |-> IF c = NoFeatureClip THEN "empty" ELSE "bag",
         gesture_detected |-> IF c % 2 = 1 THEN "OPEN_MENU" ELSE "null"]]

\* user_label.startswith("NEG_")
StartsWithNEG(user_label) == user_label \in NegLabels

AgreesPositiveAnyIntent(r) == r.cosmos_intentional = "true"

\* cosmos_intl is True and cosmos_intent == expected_intent
AgreesPositive(r) ==
    /\ r.cosmos_intentional = "true"
    /\ r.cosmos_final_intent = LABEL_TO_INTENT[r.user_label]

AgreesNegativeLoose(r) == r.cosmos_intentional # "true"

\* not (cosmos_intl is not False)
AgreesNegative(r) == r.cosmos_intentional = "false"

\* not (not clip or not clip.get("features"))
HasFeatures(clip_id) ==
    /\ clip_id \in DOMAIN clips_by_id
    /\ clips_by_id[clip_id].features = "bag"

\* gesture_type of an accepted record
GestureTypeOf(r) ==
    IF r.user_label \in TP_LABELS THEN LABEL_TO_INTENT[r.user_label]
    ELSE IF r.clip_id \in DOMAIN clips_by_id
              /\ clips_by_id[r.clip_id].gesture_detected # "null"
         THEN clips_by_id[r.clip_id].gesture_detected
         ELSE "SWITCH_RIGHT"

\* The body of the loop over results: where one result ends up.
BuildOutcome(r) ==
    IF r.cosmos_error THEN "skipped_error"
    ELSE LET is_tp == r.user_label \in TP_LABELS
             is_neg == StartsWithNEG(r.user_label)
         IN IF is_tp /\ ~AgreesPositive(r) THEN "skipped_disagree"
            ELSE IF ~is_tp /\ is_neg /\ ~AgreesNegative(r) THEN "skipped_disagree"
            ELSE IF ~is_tp /\ ~is_neg THEN "skipped_disagree"
            ELSE IF ~HasFeatures(r.clip_id) THEN "skipped_no_feat"
            ELSE "accepted"

\* accepted.append({...})
AcceptedRecord(r) ==
    [clip_id |-> r.clip_id,
     features |-> clips_by_id[r.clip_id].features,
     gesture_type |-> GestureTypeOf(r),
     label |-> IF r.user_label \in TP_LABELS THEN 1 ELSE 0,
     user_label |-> r.user_label,
     cosmos_intent |-> r.cosmos_final_intent]

\* for r in results: ... (the counters and the accepted list after the loop)
RECURSIVE BuildLoop(_, _)
BuildLoop(results, b) ==
    IF results = <<>> THEN b
    ELSE LET r == Head(results)
             o == BuildOutcome(r)
         IN BuildLoop(Tail(results),
               CASE o = "skipped_error" ->
                        [b EXCEPT !.skipped_error = b.skipped_error + 1]
                 [] o = "skipped_disagree" ->
                        [b EXCEPT !.skipped_disagree = b.skipped_disagree + 1]
                 [] o = "skipped_no_feat" ->
                        [b EXCEPT !.skipped_no_feat = b.skipped_no_feat + 1]
                 [] o = "accepted" ->
                        [b EXCEPT !.accepted = Append(b.accepted, AcceptedRecord(r))])

AppendLines(old_lines, accepted) == old_lines \o accepted

\* with CALIB_PATH.open("w") as f: one line per accepted record
WriteLines(old_lines, accepted) == accepted

\* The results files the evaluation harness can leave, by corpus.  A few
\* clips: nothing labeled, or one positive clip the teacher agrees with.
\* The full corpus: every single result, every list of MaxResults results
\* out of one result of each kind, and the worked example of four positive
\* and four negative clips, as it is and with one teacher verdict changed.
Intentionals == {"true", "false", "null"}
FinalIntents == {"OPEN_MENU", "CLOSE_MENU", "null"}

ResultValues ==
    [clip_id : {1, NoFeatureClip},
     user_label : {"TP_OPEN_MENU", "TP_CLOSE_MENU", "NEG_WAVE"} \cup OtherLabels,
     cosmos_error : BOOLEAN,
     cosmos_intentional : Intentionals,
     cosmos_final_intent : FinalIntents]

PositiveResult(c) ==
    [clip_id |-> c, user_label |-> "TP_OPEN_MENU", cosmos_error |-> FALSE,
     cosmos_intentional |-> "true", cosmos_final_intent |-> "OPEN_MENU"]

NegativeResult(c) ==
    [clip_id |-> c, user_label |-> "NEG_WAVE", cosmos_error |-> FALSE,
     cosmos_intentional |-> "false", cosmos_final_intent |-> "NONE"]

RepResults ==
    {PositiveResult(1), NegativeResult(2),
     [PositiveResult(1) EXCEPT !.cosmos_final_intent = "CLOSE_MENU"],
     [NegativeResult(2) EXCEPT !.cosmos_intentional = "null"],
     PositiveResult(NoFeatureClip), NegativeResult(UnknownClip),
     [PositiveResult(1) EXCEPT !.cosmos_error = TRUE, !.cosmos_intentional = "null",
                               !.cosmos_final_intent = "null"]}

ExamplePositives == 1..4
ExampleNegatives == 5..8
Example ==
    [i \in 1..8 |-> IF i \in ExamplePositives THEN PositiveResult(i) ELSE NegativeResult(i)]

\* The example with the teacher's verdict on its i-th clip changed to v.
ExampleChanged(i, v) == [Example EXCEPT ![i].cosmos_intentional = v]

IsChangedExample(results) ==
    \E i \in 1..8 : \E v \in Intentionals :
        /\ v # Example[i].cosmos_intentional
        /\ results = ExampleChanged(i, v)

EvalOutputs(c) ==
    IF c = "few" THEN {<<>>, <<PositiveResult(1)>>}
    ELSE {<<>>}
         \cup {<<r>> : r \in ResultValues}
         \cup [1..MaxResults -> RepResults]
         \cup {Example}
         \cup {ExampleChanged(i, v) : i \in 1..8, v \in Intentionals}

\* scripts/eval_cosmos.py writes eval_results.json.
EvalRun ==
    /\ tpc = "idle"
    /\ ~eval_results.exists \/ (build.ran /\ build.results = eval_results.results)
    /\ \E results \in EvalOutputs(corpus) :
          eval_results' = [exists |-> TRUE, results |-> results]
    /\ UNCHANGED <<corpus, calib_records, build, tvars, svars, fvars>>

\* main() of build_calibration.py: without a results file it exits with 1;
\* otherwise it goes through the results and rewrites calibration.jsonl.
CalibrationBuild ==
    /\ tpc = "idle"
    /\ IF ~eval_results.exists
       THEN UNCHANGED <<calib_records, build, calibration>>
       ELSE LET b == BuildLoop(eval_results.results,
                               [NoBuild EXCEPT !.ran = TRUE,
                                               !.results = eval_results.results,
                                               !.before = calib_records])
            IN /\ build' = b
               /\ calib_records' = WriteLines(calib_records, b.accepted)
               /\ calibration' = IF calib_records' = <<>> THEN "empty" ELSE "present"
    /\ UNCHANGED <<corpus, eval_results, training_inputs, versioned, current,
                   training_log, tpc, tr, runs, passed, pre, svars, fvars>>

\* ------------------------------------------------------ scripts/eval_cosmos.py
\* A recorded clip, as far as the harness reads it: its clip_id and its label
\* ("none": the clip has no label).
ClipValues == [clip_id : 1..2, label : {"TP_OPEN_MENU", "NEG_WAVE", "unlabeled", "none"}]

RECURSIVE SeqsUpTo(_, _)
SeqsUpTo(S, n) ==
    IF n = 0 THEN {<<>>}
    ELSE LET shorter == SeqsUpTo(S, n - 1)
         IN shorter \cup {Append(q, x) : q \in {r \in shorter : Len(r) = n - 1}, x \in S}

\* load_clips: the file named by --clips alone; otherwise the clips of the
\* clip_*.json files and then those of the eval_session_*.json files, one
\* after another.
load_clips(extra_path, clip_files, session_files) ==
    IF extra_path THEN session_files ELSE clip_files \o session_files

\* labeled = [c for c in clips if c.get("label") and c["label"] != "unlabeled"]
IsLabeled(c) == c.label # "none" /\ c.label # "unlabeled"

RECURSIVE Labeled(_)
Labeled(clips) ==
    IF clips = <<>> THEN <<>>
    ELSE IF IsLabeled(Head(clips)) THEN <<Head(clips)>> \o Labeled(Tail(clips))
    ELSE Labeled(Tail(clips))

\* What a POST to /verify can come to.  "http_error": urlopen raises
\* HTTPError; "timeout": urlopen raises another exception; "not_json": the
\* body is no JSON, json.loads raises; "json_array": the body is JSON but no
\* object; "empty_object": the body is {}; "null_confidence": an object whose
\* confidence is null; "accept", "reject": a response of the verifier's schema.
TeacherOutcomes ==
    {"accept", "reject", "http_error", "timeout", "not_json", "json_array",
     "empty_object", "null_confidence"}

\* send_to_verifier: the parsed body, or {"error": ...} for what it catches.
send_to_verifier(outcome) ==
    CASE outcome = "accept" ->
            [kind |-> "dict", error |-> FALSE, intentional |-> "true",
             final_intent |-> "OPEN_MENU", confidence |-> "0.9"]
      [] outcome = "reject" ->
            [kind |-> "dict", error |-> FALSE, intentional |-> "false",
             final_intent |-> "NONE", confidence |-> "0.9"]
      [] outcome \in {"http_error", "timeout", "not_json"} ->
            [kind |-> "dict", error |-> TRUE, intentional |-> "null",
             final_intent |-> "null", confidence |-> "absent"]
      [] outcome = "json_array" ->
            [kind |-> "list", error |-> FALSE, intentional |-> "null",
             final_intent |-> "null", confidence |-> "absent"]
      [] outcome = "empty_object" ->
            [kind |-> "dict", error |-> FALSE, intentional |-> "null",
             final_intent |-> "null", confidence |-> "absent"]
      [] outcome = "null_confidence" ->
            [kind |-> "dict", error |-> FALSE, intentional |-> "true",
             final_intent |-> "OPEN_MENU", confidence |-> "null"]

\* result = {...} of main()
EvalResult(clip, response) ==
    [clip_id |-> clip.clip_id, user_label |-> clip.label,
     cosmos_error |-> response.error,
     cosmos_intentional |-> response.intentional,
     cosmos_final_intent |-> response.final_intent]

\* compute_metrics, for one gesture type: the if/elif chain over the results
\* without teacher error.
MetricsGestureTypes == <<"OPEN_MENU", "CLOSE_MENU", "SWITCH_RIGHT", "SWITCH_LEFT">>

TPLabelOf(g) ==
    CASE g = "OPEN_MENU" -> "TP_OPEN_MENU"
      [] g = "CLOSE_MENU" -> "TP_CLOSE_MENU"
      [] g = "SWITCH_RIGHT" -> "TP_SWITCH_RIGHT"
      [] g = "SWITCH_LEFT" -> "TP_SWITCH_LEFT"

\* Python's truth of a JSON value: true is true, false and null are not.
Truthy(v) == v = "true"

MetricsCell(r, g) ==
    IF r.cosmos_error THEN "skip"
    ELSE LET user_is_this == r.user_label = TPLabelOf(g)
             user_is_neg == StartsWithNEG(r.user_label)
             cosmos_fired == Truthy(r.cosmos_intentional) /\ r.cosmos_final_intent = g
         IN IF user_is_this THEN (IF cosmos_fired THEN "tp" ELSE "fn")
            ELSE IF cosmos_fired THEN "fp"
            ELSE IF user_is_neg /\ ~Truthy(r.cosmos_intentional) THEN "tn"
            ELSE "none"

CountCells(results, g, cell) ==
    Cardinality({i \in 1..Len(results) : MetricsCell(results[i], g) = cell})

\* A quotient of two counts is kept as the pair <<numerator, denominator>>.
Zero == <<0, 1>>

compute_metrics(results) ==
    [g \in {MetricsGestureTypes[i] : i \in 1..Len(MetricsGestureTypes)} |->
        LET tp == CountCells(results, g, "tp")
            fp == CountCells(results, g, "fp")
            fn == CountCells(results, g, "fn")
            tn == CountCells(results, g, "tn")
            precision == IF tp + fp > 0 THEN <<tp, tp + fp>> ELSE Zero
            recall == IF tp + fn > 0 THEN <<tp, tp + fn>> ELSE Zero
            sum == precision[1] * recall[2] + recall[1] * precision[2]
            f1 == IF sum > 0 THEN <<2 * precision[1] * recall[1], sum>> ELSE Zero
        IN [tp |-> tp, fp |-> fp, fn |-> fn, tn |-> tn,
            precision |-> precision, recall |-> recall, f1 |-> f1]]

\* The locals of main() before it loads the clips.  (For the record: sent,
\* the clip_id of each teacher call; outcomes, what each call came to; trace,
\* the teacher calls and the sleeps in the order they happened.)
HarnessStart ==
    [fn |-> "eval_cosmos", pc |-> "load", labeled |-> <<>>, i |-> 0,
     response |-> send_to_verifier("http_error"), results |-> <<>>,
     metrics |-> compute_metrics(<<>>),
     sent |-> <<>>, outcomes |-> <<>>, trace |-> <<>>,
     written |-> FALSE, exit_code |-> None]

\* main() up to the loop: load the clips, exit with 1 if there is none, keep
\* the labeled ones.
EvalLoad ==
    /\ call.fn = "eval_cosmos"
    /\ ret = NoCall
    /\ LET clips == load_clips(call.extra_path, call.clip_files, call.session_files)
           h == HarnessStart
       IN ret' = IF clips = <<>>
                 THEN [h EXCEPT !.pc = "exited", !.exit_code = 1]
                 ELSE [h EXCEPT !.pc = "send", !.labeled = Labeled(clips), !.i = 1]
    /\ UNCHANGED <<call, tvars, svars, bvars>>

\* One turn of the loop, up to results.append(result): the teacher call and
\* the result made of its response.  resp.get on a response that is no
\* object raises AttributeError, which nothing catches.
EvalCall ==
    /\ call.fn = "eval_cosmos"
    /\ ret # NoCall
    /\ ret.pc = "send"
    /\ ret.i <= Len(ret.labeled)
    /\ \E outcome \in TeacherOutcomes :
          LET clip == ret.labeled[ret.i]
              response == send_to_verifier(outcome)
              called == [ret EXCEPT !.response = response,
                                    !.sent = Append(@, clip.clip_id),
                                    !.outcomes = Append(@, outcome),
                                    !.trace = Append(@, IF response.error THEN "call_error"
                                                        ELSE "call_ok")]
          IN ret' = IF response.kind # "dict"
                    THEN [called EXCEPT !.pc = "raised", !.exit_code = 1]
                    ELSE [called EXCEPT !.pc = "report",
                                        !.results = Append(@, EvalResult(clip, response))]
    /\ UNCHANGED <<call, tvars, svars, bvars>>

SleepAfterEveryCall(response) == TRUE

\* if cosmos_error: print the error; else: print the verdict and sleep
SleepsAfter(response) == ~response.error

\* The rest of the turn: the printed line and the sleep.  Formatting a null
\* confidence with :.2f raises TypeError, which nothing catches.
EvalReport ==
    /\ call.fn = "eval_cosmos"
    /\ ret # NoCall
    /\ ret.pc = "report"
    /\ ret' = IF ~ret.response.error /\ ret.response.confidence = "null"
              THEN [ret EXCEPT !.pc = "raised", !.exit_code = 1]
              ELSE [ret EXCEPT !.pc = "send", !.i = @ + 1,
                               !.trace = IF SleepsAfter(ret.response)
                                         THEN Append(@, "sleep") ELSE @]
    /\ UNCHANGED <<call, tvars, svars, bvars>>

\* After the loop: eval_results.json is written, the metrics are computed
\* and printed.
EvalWrite ==
    /\ call.fn = "eval_cosmos"
    /\ ret # NoCall
    /\ ret.pc = "send"
    /\ ret.i > Len(ret.labeled)
    /\ eval_results' = [exists |-> TRUE, results |-> ret.results]
    /\ ret' = [ret EXCEPT !.pc = "done", !.written = TRUE, !.exit_code = 0,
                           !.metrics = compute_metrics(ret.results)]
    /\ UNCHANGED <<call, corpus, calib_records, build, tvars, svars>>

\* --------------------------------------------------- scripts/train_student.py
\* load_calibration: (None, None) when the file is absent or holds no usable
\* record.
CalibLoaded(c) == c = "present"

GateBlocksLe(calib_loaded, current_exists, acc_new, acc_old) ==
    /\ calib_loaded
    /\ current_exists
    /\ acc_new <= acc_old - REGRESS_LIMIT

GateBlocksUnchecked(calib_loaded, current_exists, acc_new, acc_old) ==
    /\ current_exists
    /\ IF calib_loaded THEN acc_new < acc_old - REGRESS_LIMIT ELSE TRUE

\* The regression check of main(): sys.exit(0) without saving.
GateBlocks(calib_loaded, current_exists, acc_new, acc_old) ==
    /\ calib_loaded
    /\ current_exists
    /\ acc_new < acc_old - REGRESS_LIMIT

NextVersionNumCount(vs) == Cardinality({v \in DOMAIN vs : vs[v].state # "absent"})

\* next_version_num: the number of v*_model.joblib files, plus one.
NextVersionNum(vs) == Cardinality({v \in DOMAIN vs : vs[v].state # "absent"}) + 1

\* load_labeled_events reads the verifier's logs line by line.  A line is
\* blank, or text that is no JSON ("garbage"), or JSON that is no object (an
\* "array"), or an object.  Of an object the fields the function reads are
\* kept, each as the JSON it holds or "absent": features ("absent", "empty",
\* "bag" or, no object, a "list"), the bag's gestureType, proposed_intent,
\* event_id, the record's own schema_valid, response_json ("absent" or null,
\* "empty", "object" or, no object, a "string") and in it schema_valid,
\* confidence, reason_category, intentional and final_intent.
Confidences == {"absent", "null", "0.74", "0.75", "0.9"}

\* A confidence as a number, in hundredths; resp.get("confidence", 0.0).
Hundredths(confidence) ==
    CASE confidence = "0.74" -> 74
      [] confidence = "0.75" -> 75
      [] confidence = "0.9" -> 90
      [] confidence = "absent" -> 0

LogRecords ==
    [kind : {"object"},
     event_id : {"e1"},
     schema_valid : {"absent", "true", "false"},
     proposed_intent : {"absent", "SWITCH_RIGHT"},
     features : {"absent", "empty", "bag", "list"},
     gestureType : {"absent", "OPEN_MENU"},
     response_json : {"absent", "empty", "object", "string"},
     resp_schema_valid : {"absent", "false"},
     confidence : Confidences,
     reason_category : {"absent", "unknown", "intentional_command"},
     intentional : {"absent", "true", "false"},
     final_intent : {"OPEN_MENU", "SWITCH_RIGHT", "NONE"}]

\* A record as the verifier logs it for a verdict: intentional, confident.
GoodRecord(id) ==
    [kind |-> "object", event_id |-> id, schema_valid |-> "true",
     proposed_intent |-> "SWITCH_RIGHT", features |-> "bag", gestureType |-> "absent",
     response_json |-> "object", resp_schema_valid |-> "absent", confidence |-> "0.9",
     reason_category |-> "intentional_command", intentional |-> "true",
     final_intent |-> "SWITCH_RIGHT"]

BlankLine == [GoodRecord("") EXCEPT !.kind = "blank"]
GarbageLine == [GoodRecord("") EXCEPT !.kind = "garbage"]
ArrayLine == [GoodRecord("") EXCEPT !.kind = "array"]

\* features.get("gestureType") or record.get("proposed_intent")
GestureType(record) ==
    IF record.gestureType # "absent" THEN record.gestureType
    ELSE IF record.proposed_intent # "absent" THEN record.proposed_intent
    ELSE "None"

\* int(bool(intentional))
Label(record) == IF record.intentional = "true" THEN 1 ELSE 0

\* events.append({...})
LabeledEvent(record) ==
    [features |-> record.features,
     gesture_type |-> GestureType(record),
     label |-> Label(record),
     cosmos_conf |-> Hundredths(record.confidence),
     reason |-> record.reason_category,
     event_id |-> record.event_id]

\* resp.get("schema_valid", True)
SchemaFlag(record) == record.resp_schema_valid

\* The body of the loop over lines: "skip" for continue, "raise" for an
\* exception the function does not catch, "event" for an appended event.
DistillLine(line) ==
    IF line.kind = "blank" THEN "skip"
    ELSE IF line.kind = "garbage" THEN "skip"
    ELSE IF line.kind # "object" THEN "raise"
    ELSE IF line.features \in {"absent", "empty"}
              \/ line.response_json \in {"absent", "empty"} THEN "skip"
    ELSE IF line.response_json # "object" THEN "raise"
    ELSE IF SchemaFlag(line) = "false" THEN "skip"
    ELSE IF line.features # "bag" THEN "raise"
    ELSE IF line.confidence = "null" THEN "raise"
    ELSE IF Hundredths(line.confidence) < 75 THEN "skip"
    ELSE IF line.reason_category \in {"absent", "unknown"} THEN "skip"
    ELSE IF line.intentional = "absent" \/ GestureType(line) = "None" THEN "skip"
    ELSE "event"

\* for line in f, over the lines of all files in turn: the events so far, or
\* the exception that ends the scan.
RECURSIVE ScanLines(_, _)
ScanLines(lines, events) ==
    IF lines = <<>> THEN [raised |-> FALSE, events |-> events]
    ELSE LET o == DistillLine(Head(lines))
         IN IF o = "raise" THEN [raised |-> TRUE, events |-> <<>>]
            ELSE ScanLines(Tail(lines),
                           IF o = "event" THEN Append(events, LabeledEvent(Head(lines)))
                           ELSE events)

\* The lines of the log files, one file after the other.
RECURSIVE AllLines(_)
AllLines(log_files) ==
    IF log_files = <<>> THEN <<>> ELSE Head(log_files) \o AllLines(Tail(log_files))

\* load_labeled_events, given at least one log file.
load_labeled_events(log_files) == ScanLines(AllLines(log_files), <<>>)

\* The logs the function is applied to: one file of one record, for every
\* record; and up to MaxLogFiles files of up to MaxLines lines, the lines out
\* of one of each kind.
RepLines ==
    {BlankLine, GarbageLine, ArrayLine, GoodRecord("e1"), GoodRecord("e2"),
     [GoodRecord("e3") EXCEPT !.confidence = "null"],
     [GoodRecord("e4") EXCEPT !.confidence = "0.74"]}

RepFiles == UNION {[1..n -> RepLines] : n \in 0..MaxLines}

LogInputs ==
    {<<(<<record>>)>> : record \in LogRecords}
    \cup UNION {[1..n -> RepFiles] : n \in 1..MaxLogFiles}

LoadLabeledEvents ==
    /\ call.fn = "load_labeled_events"
    /\ ret = NoCall
    /\ ret' = [fn |-> call.fn] @@ load_labeled_events(call.log_files)
    /\ UNCHANGED <<call, tvars, svars, bvars>>

\* ---------------------------------------------------- verifier/verifier/main.py
\* What the teacher (the NIM, or the stub) hands to verify(): an exception
\* ("raises"; "raises_http" if it is an HTTPException), or a JSON object, of which the fields of the response schema
\* are kept, each as the JSON it holds or "absent".
TeacherResponses ==
    [kind : {"object", "raises", "raises_http"},
     intentional : {"absent", "true", "false"},
     final_intent : {"SWITCH_RIGHT", "NONE", "LATER"},
     confidence : {"absent", "0.74", "0.9"},
     reason_category : {"absent", "unknown", "intentional_command"},
     rationale : {"absent", "text"}]

\* A verify request: whether its body is a VerifyRequest (well_formed: it
\* has an event_id and its proposed_intent is one of the four intents), its
\* event_id and proposed_intent, and its feature bag if the web app sent one.
VerifyRequests == [well_formed : BOOLEAN, event_id : {"e1"},
                   proposed_intent : {"SWITCH_RIGHT"},
                   features : {"absent", "bag"}]

\* validate_response: the response has every field of the response schema
\* (VerifyResponse), each of its type.
validate_response(response_json) ==
    /\ response_json.intentional # "absent"
    /\ response_json.final_intent \in {"OPEN_MENU", "CLOSE_MENU", "SWITCH_RIGHT",
                                       "SWITCH_LEFT", "NONE"}
    /\ response_json.confidence # "absent"
    /\ response_json.reason_category # "absent"
    /\ response_json.rationale # "absent"

\* log_record of verify(): the response under response_json, the verdict of
\* validate_response beside it as the record's schema_valid; after an
\* exception response_json is null and schema_valid false.
VerifierLogRecord(req, response_json) ==
    [kind |-> "object", event_id |-> req.event_id,
     schema_valid |-> IF response_json.kind = "object" /\ validate_response(response_json)
                      THEN "true" ELSE "false",
     proposed_intent |-> req.proposed_intent,
     features |-> req.features, gestureType |-> "absent",
     response_json |-> IF response_json.kind = "object" THEN "object" ELSE "absent",
     resp_schema_valid |-> "absent",
     confidence |-> response_json.confidence,
     reason_category |-> response_json.reason_category,
     intentional |-> response_json.intentional,
     final_intent |-> response_json.final_intent]

\* POST /verify on an empty verifier_events.jsonl.  A body that is no
\* VerifyRequest is answered 422 before verify() is entered.  Otherwise the
\* record is appended: in the try block once the response is there, in an
\* except block if the teacher raised; the answer is 200 with the response if
\* it is schema-valid, 500 otherwise.
Verify ==
    /\ call.fn = "verify"
    /\ ret = NoCall
    /\ LET record == VerifierLogRecord(call.req, call.response_json)
           \* the try block: append_jsonl; log_written = True
           log_written == call.response_json.kind = "object"
           in_try == IF log_written THEN <<record>> ELSE <<>>
           \* raise HTTPException if not schema_valid, or the teacher's own
           http_exception == \/ call.response_json.kind = "raises_http"
                             \/ log_written /\ record.schema_valid = "false"
           \* except HTTPException: if not log_written: append_jsonl
           \* except Exception: append_jsonl
           in_except == IF http_exception
                        THEN (IF ~log_written THEN <<record>> ELSE <<>>)
                        ELSE IF call.response_json.kind = "raises" THEN <<record>>
                        ELSE <<>>
       IN ret' = IF ~call.req.well_formed
                 THEN [fn |-> "verify", pc |-> "logged", log |-> <<>>, status |-> 422,
                       raised |-> FALSE, events |-> <<>>]
                 ELSE [fn |-> "verify", pc |-> "logged", log |-> in_try \o in_except,
                       status |-> IF record.schema_valid = "true" THEN 200 ELSE 500,
                       raised |-> FALSE, events |-> <<>>]
    /\ UNCHANGED <<call, tvars, svars, bvars>>

\* The next training run distils the verifier's log.
DistillVerifierLog ==
    /\ call.fn = "verify"
    /\ ret # NoCall
    /\ ret.pc = "logged"
    /\ LET d == load_labeled_events(<<ret.log>>)
       IN ret' = [ret EXCEPT !.pc = "distilled", !.raised = d.raised,
                             !.events = d.events]
    /\ UNCHANGED <<call, tvars, svars, bvars>>

\* train_and_pick fits the two families in this order; acc is the number of
\* test examples (of NumTest) the fitted classifier predicts correctly.
Families == <<"LogisticRegression", "RandomForest">>

InsertBeforeEqual(t, sorted) ==
    LET k == Cardinality({i \in 1..Len(sorted) : sorted[i].acc > t.acc})
    IN SubSeq(sorted, 1, k) \o <<t>> \o SubSeq(sorted, k + 1, Len(sorted))

\* One element put into a list sorted by acc, highest first: behind the
\* elements that are not lower (list.sort is stable, with reverse=True too).
Insert(t, sorted) ==
    LET k == Cardinality({i \in 1..Len(sorted) : sorted[i].acc >= t.acc})
    IN SubSeq(sorted, 1, k) \o <<t>> \o SubSeq(sorted, k + 1, Len(sorted))

\* results.sort(key=lambda t: t[0], reverse=True)
RECURSIVE SortByAccDesc(_, _)
SortByAccDesc(results, sorted) ==
    IF results = <<>> THEN sorted
    ELSE SortByAccDesc(Tail(results), Insert(Head(results), sorted))

\* train_and_pick, given what each fitted family scores on the test split.
train_and_pick(accs) ==
    LET results == [i \in 1..Len(Families) |-> [acc |-> accs[i], name |-> Families[i]]]
        best == SortByAccDesc(results, <<>>)[1]
    IN [best_name |-> best.name, best_acc |-> best.acc]

TrainAndPick ==
    /\ call.fn = "train_and_pick"
    /\ ret = NoCall
    /\ ret' = [fn |-> call.fn] @@ train_and_pick(call.accs)
    /\ UNCHANGED <<call, tvars, svars, bvars>>

TooFewSamplesOffByOne(n) == n < MIN_SAMPLES - 1

\* if len(events) < MIN_SAMPLES
TooFewSamples(n) == n < MIN_SAMPLES

SplitRowsWithCalibration == {"production_log", "calibration"}

\* X, y = build_matrix(events), events = load_labeled_events(): where the rows
\* that train_test_split divides come from
SplitRows == {"production_log"}

\* main() to the end of training: the sample gate (too few distilled events
\* end the run cleanly), load_calibration, the split, train_and_pick.
TrainStart ==
    /\ tpc = "idle"
    /\ runs < MaxRuns
    /\ runs' = runs + 1
    /\ LET inp == training_inputs[runs + 1]
       IN IF TooFewSamples(inp.n_events)
          THEN \* sys.exit(0)
               /\ tr' = [NoRun EXCEPT !.n_events = inp.n_events, !.outcome = "aborted",
                                      !.exit_code = 0]
               /\ tpc' = "exit"
          ELSE /\ tr' = [NoRun EXCEPT !.n_events = inp.n_events,
                                      !.new_model = inp.fit,
                                      !.calib_loaded = CalibLoaded(calibration),
                                      !.split_from = SplitRows,
                                      !.outcome = "running"]
               /\ tpc' = "gate"
    /\ UNCHANGED <<training_inputs, versioned, current, training_log, calibration,
                   passed, pre, svars, bvars, fvars>>

\* main(): the calibration regression check.
TrainGate ==
    /\ tpc = "gate"
    /\ LET exists == current.state # "absent"
           acc_new == IF tr.calib_loaded THEN CalibAcc(tr.new_model) ELSE None
       IN IF tr.calib_loaded /\ current.state = "partial"
          THEN \* joblib.load of a truncated pickle raises: the run dies here
               /\ tr' = [tr EXCEPT !.calib_acc_new = acc_new, !.current_existed = exists,
                                   !.outcome = "raised", !.exit_code = 1]
               /\ tpc' = "exit"
               /\ passed' = passed
          ELSE LET acc_old == IF tr.calib_loaded /\ exists
                              THEN CalibAcc(current.data.model) ELSE None
                   blocked == GateBlocks(tr.calib_loaded, exists, acc_new, acc_old)
               IN /\ tr' = [tr EXCEPT !.calib_acc_new = acc_new,
                                      !.calib_acc_old = acc_old,
                                      !.current_existed = exists,
                                      !.outcome = IF blocked THEN "blocked" ELSE "running",
                                      !.exit_code = IF blocked THEN 0 ELSE None]
                  /\ tpc' = IF blocked THEN "exit" ELSE "save_versioned"
                  /\ passed' = IF blocked THEN passed ELSE Append(passed, tr.new_model)
    /\ UNCHANGED <<training_inputs, versioned, current, training_log, calibration, runs,
                   pre, svars, bvars, fvars>>

\* model_bundle, once version_num is assigned.
ModelBundle(n) == [model |-> tr.new_model, version |-> n,
                   calib_accuracy |-> tr.calib_acc_new,
                   feature_names |-> feature_col_names]

\* version_num = next_version_num(); joblib.dump(model_bundle, versioned_path)
DumpVersioned ==
    /\ tpc = "save_versioned"
    /\ LET n == NextVersionNum(versioned)
       IN /\ n \in VersionNames
          /\ tr' = [tr EXCEPT !.version_num = n]
          /\ versioned' = [versioned EXCEPT ![n] = CompleteFile(ModelBundle(n))]
    /\ tpc' = "save_current"
    /\ UNCHANGED <<training_inputs, current, training_log, calibration, runs, passed,
                   pre, svars, bvars, fvars>>

\* joblib.dump(model_bundle, current_path): the file is opened, which
\* truncates it in place ...
DumpCurrentOpen ==
    /\ tpc = "save_current"
    /\ current' = [state |-> "partial", data |-> NoBundle, mtime |-> current.mtime + 1]
    /\ tpc' = "dump_current"
    /\ UNCHANGED <<training_inputs, versioned, training_log, calibration, tr, runs,
                   passed, pre, svars, bvars, fvars>>

\* ... and the pickle is written into it.
DumpCurrentClose ==
    /\ tpc = "dump_current"
    /\ current' = [state |-> "complete", data |-> ModelBundle(tr.version_num),
                   mtime |-> current.mtime + 1]
    /\ tpc' = "save_log"
    /\ UNCHANGED <<training_inputs, versioned, training_log, calibration, tr, runs,
                   passed, pre, svars, bvars, fvars>>

\* training_log: the audit record of the run.
TrainingLogRecord == [version |-> tr.version_num, model |-> tr.new_model,
                      calib_accuracy |-> tr.calib_acc_new,
                      calib_acc_old |-> tr.calib_acc_old]

ExistingLogDropped(log) == <<>>

\* existing_log: the parsed document, or [] when there is no file or it does
\* not parse.
ExistingLog(log) == IF log.state = "complete" THEN log.records ELSE <<>>

\* existing_log.append(training_log); log_path.write_text(...); end of main()
LogAppend ==
    /\ tpc = "save_log"
    /\ training_log' = [state |-> "complete",
                        records |-> Append(ExistingLog(training_log), TrainingLogRecord)]
    /\ tr' = [tr EXCEPT !.outcome = "published", !.exit_code = 0]
    /\ tpc' = "exit"
    /\ UNCHANGED <<training_inputs, versioned, current, calibration, runs, passed,
                   pre, svars, bvars, fvars>>

\* The process is gone (sys.exit, the end of main, an uncaught exception, a kill).
TrainExit ==
    /\ tpc = "exit"
    /\ tpc' = "idle"
    /\ tr' = NoRun
    /\ pre' = Registry
    /\ UNCHANGED <<training_inputs, versioned, current, training_log, calibration, runs,
                   passed, svars, bvars, fvars>>

\* Between two runs somebody removes an older v{N}_model.joblib from
\* models/student/: next_version_num counts the files that are left.
RemoveVersioned ==
    /\ tpc = "idle"
    /\ \E v \in VersionNames :
          /\ versioned[v].state = "complete"
          /\ \E w \in VersionNames : w > v /\ versioned[w].state = "complete"
          /\ versioned' = [versioned EXCEPT ![v] = AbsentFile]
    /\ pre' = [pre EXCEPT !.versioned = versioned']
    /\ UNCHANGED <<training_inputs, current, training_log, calibration, tpc, tr, runs,
                   passed, svars, bvars, fvars>>

Trainer ==
    \/ TrainStart
    \/ TrainGate
    \/ DumpVersioned
    \/ DumpCurrentOpen
    \/ DumpCurrentClose
    \/ LogAppend
    \/ TrainExit

\* ---------------------------------------------------------------- process death
\* The training process is killed between two statements; the files stay as
\* they are.
Crash ==
    /\ tpc \in {"gate", "save_versioned", "save_current", "dump_current", "save_log"}
    /\ tr' = [tr EXCEPT !.outcome = "killed", !.exit_code = 1]
    /\ tpc' = "exit"
    /\ UNCHANGED <<training_inputs, versioned, current, training_log, calibration, runs,
                   passed, pre, svars, bvars, fvars>>

\* ... or inside joblib.dump(model_bundle, versioned_path), the file opened and
\* not completely written.
CrashInDumpVersioned ==
    /\ tpc = "save_versioned"
    /\ LET n == NextVersionNum(versioned)
       IN /\ n \in VersionNames
          /\ tr' = [tr EXCEPT !.version_num = n, !.outcome = "killed", !.exit_code = 1]
          /\ versioned' = [versioned EXCEPT ![n] = PartialFile]
    /\ tpc' = "exit"
    /\ UNCHANGED <<training_inputs, current, training_log, calibration, runs, passed,
                   pre, svars, bvars, fvars>>

\* ... or inside log_path.write_text: the document truncated, and a part of
\* the new text written (k whole records of it).
CrashInLogWrite ==
    /\ tpc = "save_log"
    /\ \E k \in 0..Len(ExistingLog(training_log)) :
          training_log' = [state |-> "partial",
                           records |-> SubSeq(ExistingLog(training_log), 1, k)]
    /\ tr' = [tr EXCEPT !.outcome = "killed", !.exit_code = 1]
    /\ tpc' = "exit"
    /\ UNCHANGED <<training_inputs, versioned, current, calibration, runs, passed,
                   pre, svars, bvars, fvars>>

Killed ==
    \/ Crash
    \/ CrashInDumpVersioned
    \/ CrashInLogWrite

\* ----------------------------------------------------------- student/service.py
\* The trainer's steps other than the two writes to current_model.joblib touch
\* nothing the service reads, and the service writes nothing the trainer
\* reads: a request step taken between two such trainer steps is the same
\* step taken before or after them.  Request steps are therefore interleaved
\* only where the current artifact is as a request can find it: between runs,
\* and while the artifact is being rewritten.
ServicePoint == tpc \in {"idle", "dump_current"}

\* Thread t is at position pc of its handler.
At(t, pc) == ServicePoint /\ th[t].pc = pc

\* A request arrives on a thread of the (threaded) Flask server.
RequestStart(t) ==
    /\ At(t, "idle")
    /\ nreq < MaxRequests
    /\ nreq' = nreq + 1
    /\ \E k \in {"predict", "status"} :
          th' = [th EXCEPT ![t] = [IdleThread EXCEPT
                    !.pc = "exists", !.kind = k,
                    !.issued = IF current.state = "complete"
                               THEN current.data.version ELSE None,
                    !.absent_at = IF current.state = "absent"
                                  THEN current.mtime ELSE None]]
    /\ resp' = [resp EXCEPT ![t] = NoResponse]
    /\ UNCHANGED <<model, model_mtime, model_version, total_preds, STUDENT_MODE, tvars, bvars, fvars>>

Goto(t, pc) == th' = [th EXCEPT ![t].pc = pc]

\* The request ends in an unhandled exception: Flask answers 500.
Raise(t) ==
    /\ resp' = [resp EXCEPT ![t] = [NoResponse EXCEPT !.kind = "error",
                                                     !.request = th[t].kind,
                                                     !.issued = th[t].issued,
                                                     !.absent_at = th[t].absent_at]]
    /\ th' = [th EXCEPT ![t] = [IdleThread EXCEPT !.pc = "return"]]

\* _load_model_if_needed: if not MODEL_PATH.exists()
LoadExists(t) ==
    /\ At(t, "exists")
    /\ IF current.state = "absent" THEN Goto(t, "reset_model") ELSE Goto(t, "stat")
    /\ UNCHANGED <<model, model_mtime, model_version, total_preds, nreq, resp, STUDENT_MODE, tvars, bvars, fvars>>

\* _model = None
ResetModel(t) ==
    /\ At(t, "reset_model")
    /\ model' = None
    /\ Goto(t, "reset_mtime")
    /\ UNCHANGED <<model_mtime, model_version, total_preds, nreq, resp, STUDENT_MODE, tvars, bvars, fvars>>

\* _model_mtime = None
ResetMtime(t) ==
    /\ At(t, "reset_mtime")
    /\ model_mtime' = None
    /\ Goto(t, "reset_version")
    /\ UNCHANGED <<model, model_version, total_preds, nreq, resp, STUDENT_MODE, tvars, bvars, fvars>>

\* _model_version = None; return
ResetVersion(t) ==
    /\ At(t, "reset_version")
    /\ model_version' = None
    /\ Goto(t, "loaded")
    /\ UNCHANGED <<model, model_mtime, total_preds, nreq, resp, STUDENT_MODE, tvars, bvars, fvars>>

\* mtime = MODEL_PATH.stat().st_mtime
LoadStat(t) ==
    /\ At(t, "stat")
    /\ IF current.state = "absent"
       THEN Raise(t)
       ELSE /\ th' = [th EXCEPT ![t].pc = "check", ![t].mtime = current.mtime]
            /\ resp' = resp
    /\ UNCHANGED <<model, model_mtime, model_version, total_preds, nreq, STUDENT_MODE, tvars, bvars, fvars>>

\* if _model is None or mtime != _model_mtime
LoadCheck(t) ==
    /\ At(t, "check")
    /\ IF model = None \/ th[t].mtime # model_mtime
       THEN Goto(t, "load")
       ELSE th' = [th EXCEPT ![t].pc = "loaded", ![t].mtime = None]
    /\ UNCHANGED <<model, model_mtime, model_version, total_preds, nreq, resp, STUDENT_MODE, tvars, bvars, fvars>>

\* data = joblib.load(MODEL_PATH)
LoadRead(t) ==
    /\ At(t, "load")
    /\ IF current.state = "complete"
       THEN /\ th' = [th EXCEPT ![t].pc = "set_model", ![t].data = current.data]
            /\ resp' = resp
       ELSE Raise(t)
    /\ UNCHANGED <<model, model_mtime, model_version, total_preds, nreq, STUDENT_MODE, tvars, bvars, fvars>>

\* _model = data.get("model")
SetModel(t) ==
    /\ At(t, "set_model")
    /\ model' = th[t].data.model
    /\ Goto(t, "set_version")
    /\ UNCHANGED <<model_mtime, model_version, total_preds, nreq, resp, STUDENT_MODE, tvars, bvars, fvars>>

\* _model_version = data.get("version", "unknown")
SetVersion(t) ==
    /\ At(t, "set_version")
    /\ model_version' = th[t].data.version
    /\ th' = [th EXCEPT ![t].pc = "set_mtime", ![t].data = NoBundle]
    /\ UNCHANGED <<model, model_mtime, total_preds, nreq, resp, STUDENT_MODE, tvars, bvars, fvars>>

\* _model_mtime = mtime
SetMtime(t) ==
    /\ At(t, "set_mtime")
    /\ model_mtime' = th[t].mtime
    /\ th' = [th EXCEPT ![t].pc = "loaded", ![t].mtime = None]
    /\ UNCHANGED <<model, model_version, total_preds, nreq, resp, STUDENT_MODE, tvars, bvars, fvars>>

ExecuteAlwaysPred(mode, pred) == pred

\* execute = pred if STUDENT_MODE == "active" else True
Execute(mode, pred) == IF mode = "active" THEN pred ELSE TRUE

DegradedFalse(t) ==
    [NoResponse EXCEPT !.kind = "predict", !.execute = FALSE, !.confidence = 0,
                       !.request = "predict", !.issued = th[t].issued,
                       !.absent_at = th[t].absent_at]

\* predict with no model: execute True, confidence 0.0, model_version None
Degraded(t) ==
    [NoResponse EXCEPT !.kind = "predict", !.execute = TRUE, !.confidence = 0,
                       !.request = "predict", !.issued = th[t].issued,
                       !.absent_at = th[t].absent_at]

\* predict: if _model is None: return the degraded default
PredictCheckNone(t) ==
    /\ At(t, "loaded")
    /\ th[t].kind = "predict"
    /\ IF model = None
       THEN /\ resp' = [resp EXCEPT ![t] = Degraded(t)]
            /\ th' = [th EXCEPT ![t] = [IdleThread EXCEPT !.pc = "return"]]
       ELSE /\ Goto(t, "predict")
            /\ resp' = resp
    /\ UNCHANGED <<model, model_mtime, model_version, total_preds, nreq, STUDENT_MODE, tvars, bvars, fvars>>

\* x = _features_to_vector(...); pred = bool(_model.predict(x)[0])
PredictCall(t) ==
    /\ At(t, "predict")
    /\ IF model = None
       THEN Raise(t)
       ELSE /\ \E x \in Inputs :
                  th' = [th EXCEPT ![t].pc = "proba", ![t].x = x,
                                   ![t].pred = ModelPredict(model, x)]
            /\ resp' = resp
    /\ UNCHANGED <<model, model_mtime, model_version, total_preds, nreq, STUDENT_MODE, tvars, bvars, fvars>>

\* proba = _model.predict_proba(x)[0]; conf = float(max(proba))
PredictProba(t) ==
    /\ At(t, "proba")
    /\ IF model = None
       THEN Raise(t)
       ELSE /\ th' = [th EXCEPT ![t].pc = "count", ![t].conf = ModelConf(model, th[t].x)]
            /\ resp' = resp
    /\ UNCHANGED <<model, model_mtime, model_version, total_preds, nreq, STUDENT_MODE, tvars, bvars, fvars>>

\* _total_preds += 1: the global is read ...
PredictCountLoad(t) ==
    /\ At(t, "count")
    /\ th' = [th EXCEPT ![t].pc = "count_store", ![t].count = total_preds]
    /\ UNCHANGED <<model, model_mtime, model_version, total_preds, nreq, resp, STUDENT_MODE, tvars, bvars, fvars>>

\* ... and stored back, one higher.
PredictCountStore(t) ==
    /\ At(t, "count_store")
    /\ total_preds' = th[t].count + 1
    /\ th' = [th EXCEPT ![t].pc = "respond", ![t].count = None]
    /\ UNCHANGED <<model, model_mtime, model_version, nreq, resp, STUDENT_MODE, tvars, bvars, fvars>>

\* return jsonify({execute, confidence, model_version, mode})
PredictRespond(t) ==
    /\ At(t, "respond")
    /\ resp' = [resp EXCEPT ![t] =
                  [kind |-> "predict", execute |-> Execute(STUDENT_MODE, th[t].pred),
                   confidence |-> th[t].conf, model_version |-> model_version,
                   model_loaded |-> FALSE, total_predictions |-> None,
                   request |-> "predict", x |-> th[t].x, pred |-> th[t].pred,
                   issued |-> th[t].issued, absent_at |-> th[t].absent_at]]
    /\ th' = [th EXCEPT ![t] = [IdleThread EXCEPT !.pc = "return"]]
    /\ UNCHANGED <<model, model_mtime, model_version, total_preds, nreq, STUDENT_MODE, tvars, bvars, fvars>>

\* status: return jsonify({model_loaded, model_version, mode, total_predictions})
StatusRespond(t) ==
    /\ At(t, "loaded")
    /\ th[t].kind = "status"
    /\ resp' = [resp EXCEPT ![t] =
                  [NoResponse EXCEPT !.kind = "status", !.model_loaded = (model # None),
                                     !.model_version = model_version,
                                     !.total_predictions = total_preds,
                                     !.request = "status",
                                     !.issued = th[t].issued,
                                     !.absent_at = th[t].absent_at]]
    /\ th' = [th EXCEPT ![t] = [IdleThread EXCEPT !.pc = "return"]]
    /\ UNCHANGED <<model, model_mtime, model_version, total_preds, nreq, STUDENT_MODE, tvars, bvars, fvars>>

\* The response has been sent; the thread is free again.
RequestReturn(t) ==
    /\ At(t, "return")
    /\ th' = [th EXCEPT ![t] = IdleThread]
    /\ resp' = [resp EXCEPT ![t] = NoResponse]
    /\ UNCHANGED <<model, model_mtime, model_version, total_preds, nreq, STUDENT_MODE, tvars, bvars, fvars>>

\* current_model.joblib is removed from models/student/ while the service
\* runs.
RemoveCurrent ==
    /\ tpc = "idle"
    /\ current.state = "complete"
    /\ current' = [state |-> "absent", data |-> NoBundle, mtime |-> current.mtime]
    /\ pre' = [pre EXCEPT !.current = current']
    /\ UNCHANGED <<training_inputs, versioned, training_log, calibration, tpc, tr, runs,
                   passed, svars, bvars, fvars>>

Service ==
    \E t \in Threads :
        \/ RequestStart(t)
        \/ LoadExists(t)
        \/ ResetModel(t)
        \/ ResetMtime(t)
        \/ ResetVersion(t)
        \/ LoadStat(t)
        \/ LoadCheck(t)
        \/ LoadRead(t)
        \/ SetModel(t)
        \/ SetVersion(t)
        \/ SetMtime(t)
        \/ PredictCheckNone(t)
        \/ PredictCall(t)
        \/ PredictProba(t)
        \/ PredictCountLoad(t)
        \/ PredictCountStore(t)
        \/ PredictRespond(t)
        \/ StatusRespond(t)
        \/ RequestReturn(t)

\* ------------------------------------------------------------------ properties
IsPrefix(s, q) == Len(s) <= Len(q) /\ SubSeq(q, 1, Len(s)) = s

\* The run at its end, with what it found: published means the versioned
\* artifact, the current artifact and one audit record were written.
RunPublished ==
    /\ tr.version_num \in VersionNames
    /\ pre.versioned[tr.version_num].state = "absent"
    /\ \A v \in VersionNames \ {tr.version_num} : versioned[v] = pre.versioned[v]
    /\ versioned[tr.version_num].state = "complete"
    /\ versioned[tr.version_num].data.model = tr.new_model
    /\ versioned[tr.version_num].data.version = tr.version_num
    /\ versioned[tr.version_num].data.calib_accuracy = tr.calib_acc_new
    /\ current.state = "complete"
    /\ current.data = versioned[tr.version_num].data
    /\ current.mtime > pre.current.mtime
    /\ Len(training_log.records) = Len(pre.training_log.records) + 1

\* C1: in a run that loaded a calibration set and found a current artifact,
\* the registry is left as it was (nothing published) exactly when the
\* candidate's calibration accuracy is below the current model's less 0.02;
\* 0.87 against 0.90 is rejected and 0.89 against 0.90 is published.
C1_GateBlocksIffRegression ==
    (tpc = "exit" /\ tr.calib_loaded /\ tr.current_existed) =>
        /\ (Registry = pre) <=> (tr.calib_acc_new < tr.calib_acc_old - 2)
        /\ (Registry # pre) <=> RunPublished
        /\ (tr.calib_acc_old = 90 /\ tr.calib_acc_new = 87) => Registry = pre
        /\ (tr.calib_acc_old = 90 /\ tr.calib_acc_new = 89) => RunPublished

C1_Witness ==
    /\ tpc = "exit"
    /\ tr.calib_loaded
    /\ tr.current_existed
    /\ tr.calib_acc_old = 90
    /\ tr.calib_acc_new = 87
    /\ tr.outcome = "blocked"

\* C2: between runs, with N runs having passed the gate, exactly the
\* artifacts v1..vN exist, each the bundle of the run that passed, and
\* current holds the bundle of the last of them; a run the gate rejected
\* leaves the versioned artifacts, current and the next version number alone.
C2_RegistryVersioning ==
    tpc \in {"idle", "exit"} =>
        LET N == Len(passed)
        IN /\ {v \in VersionNames : versioned[v].state # "absent"} = 1..N
           /\ \A v \in 1..N :
                 /\ versioned[v].state = "complete"
                 /\ versioned[v].data.model = passed[v]
                 /\ versioned[v].data.version = v
           /\ IF N = 0 THEN current.state = "absent"
              ELSE current.state = "complete" /\ current.data = versioned[N].data
           /\ (tpc = "exit" /\ tr.outcome = "blocked") =>
                 /\ versioned = pre.versioned
                 /\ current = pre.current
                 /\ NextVersionNum(versioned) = NextVersionNum(pre.versioned)

C2_Witness ==
    /\ tpc = "exit"
    /\ tr.outcome = "blocked"
    /\ Len(passed) = 2
    /\ runs = 3

\* C3: a training process that dies during a publish leaves current either
\* as it was or holding the complete new bundle.
C3_CrashLeavesCurrentWhole ==
    (tpc = "exit" /\ tr.outcome = "killed") =>
        \/ current = pre.current
        \/ /\ current.state = "complete"
           /\ current.data.model = tr.new_model
           /\ current.data.version = tr.version_num

\* C9: a run appends exactly one record when it publishes, and whatever it
\* does, the records that were in the log before it are still there, in order.
C9_AuditLogAppendOnly ==
    tpc = "exit" =>
        /\ IsPrefix(pre.training_log.records, training_log.records)
        /\ tr.outcome = "published" =>
              Len(training_log.records) = Len(pre.training_log.records) + 1

\* C10: without a (usable) calibration set a trained candidate is published
\* whatever the current model is, and a run is blocked only if it had both a
\* calibration set and a current artifact.
C10_NoCalibrationPublishes ==
    tpc = "exit" =>
        /\ (tr.outcome # "aborted" /\ calibration # "present") => RunPublished
        /\ tr.outcome = "blocked" =>
              /\ calibration = "present"
              /\ pre.current.state = "complete"

C10_Witness ==
    /\ tpc = "exit"
    /\ calibration # "present"
    /\ tr.outcome = "published"
    /\ pre.current.state = "complete"
    /\ CalibAcc(tr.new_model) < CalibAcc(pre.current.data.model) - 2

\* The bundles ever published.
Published == {versioned[v].data : v \in {w \in VersionNames : versioned[w].state = "complete"}}

\* A predict response for which the model was run.
Ran(r) == r.kind = "predict" /\ r.x # None

\* C4: the verdict and the confidence of a predict response are those of the
\* bundle whose version the response reports.
C4_ResponseFromOneBundle ==
    \A t \in Threads :
        Ran(resp[t]) =>
            \E b \in Published :
                /\ b.version = resp[t].model_version
                /\ resp[t].confidence = ModelConf(b.model, resp[t].x)
                /\ resp[t].pred = ModelPredict(b.model, resp[t].x)

\* C5: a request that arrives when current_model.joblib holds version V is
\* answered with version V or a later one, never with a superseded one.
C5_NeverSupersededVersion ==
    \A t \in Threads :
        (resp[t].kind \in {"predict", "status"} /\ resp[t].issued # None) =>
            /\ resp[t].model_version # None
            /\ resp[t].model_version >= resp[t].issued

C7_NoModelDegrades ==
    \A t \in Threads :
        (resp[t].request = "predict" /\ current.state = "absent") =>
            /\ resp[t].kind = "predict"
            /\ resp[t].execute = TRUE
            /\ resp[t].confidence = 0
            /\ resp[t].model_version = None

C7_Witness ==
    \E t \in Threads :
        /\ STUDENT_MODE = "active"
        /\ resp[t].request = "predict"
        /\ resp[t].kind = "predict"
        /\ current.state = "absent"
        /\ model = None

\* C8: every request is answered with a well-formed response, never with an
\* exception, whatever the training run is doing to the current artifact.
C8_NeverRaises ==
    \A t \in Threads : resp[t].kind # "error"

\* C24: in active mode, when the model was run, the response's execute is
\* the verdict of the loaded model on the input, its confidence that model's
\* maximum class probability and its version the version of that model's
\* bundle.
C24_ActiveExecuteIsVerdict ==
    \A t \in Threads :
        (STUDENT_MODE = "active" /\ Ran(resp[t])) =>
            \E b \in Published :
                /\ resp[t].execute = ModelPredict(b.model, resp[t].x)
                /\ resp[t].confidence = ModelConf(b.model, resp[t].x)
                /\ resp[t].model_version = b.version

\* A request answered while, since it arrived, there has been no current
\* artifact: none when it arrived, and none written since.
AnsweredWithoutArtifact(r) ==
    /\ r.kind # "none"
    /\ r.absent_at # None
    /\ current.state = "absent"
    /\ current.mtime = r.absent_at

\* A request answered while, since it arrived, the current artifact has been
\* one and the same complete file.
AnsweredWithArtifact(r) ==
    /\ r.kind # "none"
    /\ r.issued # None
    /\ current.state = "complete"
    /\ current.data.version = r.issued

\* C31: after the current artifact was removed a request drops the loaded
\* model: status answers model_loaded false and version none, predict the
\* degraded default; once an artifact is there again a request loads it and
\* answers with its version.
C31_RemovedArtifactDropsModel ==
    \A t \in Threads :
        /\ AnsweredWithoutArtifact(resp[t]) =>
              /\ resp[t].kind \in {"predict", "status"}
              /\ resp[t].model_version = None
              /\ resp[t].model_loaded = FALSE
              /\ resp[t].kind = "predict" =>
                    resp[t].execute = TRUE /\ resp[t].confidence = 0
        /\ AnsweredWithArtifact(resp[t]) =>
              /\ resp[t].kind \in {"predict", "status"}
              /\ resp[t].model_version = resp[t].issued
              /\ resp[t].kind = "status" => resp[t].model_loaded

\* A human label TP_X with the intent X it names.
PositivePairs == {<<"TP_OPEN_MENU", "OPEN_MENU">>, <<"TP_CLOSE_MENU", "CLOSE_MENU">>,
                  <<"TP_SWITCH_RIGHT", "SWITCH_RIGHT">>, <<"TP_SWITCH_LEFT", "SWITCH_LEFT">>}

\* The sample of a result has a feature bag and its teacher call did not fail.
Usable(r) == ~r.cosmos_error /\ r.clip_id \in 1..NumClips

ShouldBeLabel1(r) ==
    /\ Usable(r)
    /\ r.cosmos_intentional = "true"
    /\ <<r.user_label, r.cosmos_final_intent>> \in PositivePairs

ShouldBeLabel0(r) ==
    /\ Usable(r)
    /\ r.user_label \in NegLabels
    /\ r.cosmos_intentional = "false"

IsLabel1(rec) == rec.label = 1
IsLabel0(rec) == rec.label = 0
ClipIdsOf(s) == [i \in 1..Len(s) |-> s[i].clip_id]

\* C11: of the results a build read, those written with label 1 are exactly
\* the ones with a positive label TP_X the teacher called intentional with
\* final intent X, those written with label 0 exactly the ones with a NEG_
\* label the teacher called not intentional, a result without feature bag or
\* with a failed teacher call is in neither, and nothing else is written.
C11_AcceptsIffAgreement ==
    build.ran =>
        /\ ClipIdsOf(SelectSeq(calib_records, IsLabel1))
              = ClipIdsOf(SelectSeq(build.results, ShouldBeLabel1))
        /\ ClipIdsOf(SelectSeq(calib_records, IsLabel0))
              = ClipIdsOf(SelectSeq(build.results, ShouldBeLabel0))
        /\ \A i \in 1..Len(calib_records) : calib_records[i].label \in {0, 1}
        /\ \A i \in 1..Len(calib_records) :
              /\ calib_records[i].clip_id \in 1..NumClips
              /\ \E j \in 1..Len(build.results) :
                    /\ build.results[j].clip_id = calib_records[i].clip_id
                    /\ ~build.results[j].cosmos_error

C11_Witness ==
    /\ build.ran
    /\ Len(build.results) = 1
    /\ build.results[1].user_label = "TP_CLOSE_MENU"
    /\ build.results[1].cosmos_intentional = "true"
    /\ build.results[1].cosmos_final_intent = "OPEN_MENU"
    /\ build.results[1].clip_id = 1
    /\ ~build.results[1].cosmos_error
    /\ calib_records = <<>>

\* C12: a build puts every result in exactly one of accepted, disagreement,
\* missing feature and teacher error; the example of four agreed positives
\* and four agreed negatives is accepted whole, four of each label; the build
\* of the example with one verdict changed, after the build of the example,
\* accepts seven and counts one disagreement more.
C12_CountsPartitionResults ==
    [][/\ build'.ran =>
             /\ Len(build'.accepted) + build'.skipped_disagree
                  + build'.skipped_no_feat + build'.skipped_error = Len(build'.results)
             /\ build'.results = Example =>
                   /\ Len(build'.accepted) = 8
                   /\ Len(SelectSeq(build'.accepted, IsLabel1)) = 4
                   /\ Len(SelectSeq(build'.accepted, IsLabel0)) = 4
       /\ (build.ran /\ build.results = Example /\ build'.ran
             /\ IsChangedExample(build'.results)) =>
             /\ Len(build'.accepted) = 7
             /\ build'.skipped_disagree = build.skipped_disagree + 1
             /\ build'.skipped_no_feat = build.skipped_no_feat
             /\ build'.skipped_error = build.skipped_error]_vars

C12_Witness ==
    /\ build.ran
    /\ IsChangedExample(build.results)
    /\ Len(build.before) = 8
    /\ Len(build.accepted) = 7
    /\ build.skipped_disagree = 1

\* C13: after a build calibration.jsonl holds the records that build accepted,
\* one per line and in their order, and nothing of what it held before; a
\* build that reads the results the last build read leaves the lines as they
\* were.
C13_FileIsLastBuild ==
    [][/\ build'.ran => calib_records' = build'.accepted
       /\ (build.ran /\ build'.ran /\ build'.results = build.results) =>
             calib_records' = calib_records]_vars

C13_Witness ==
    /\ build.ran
    /\ Len(build.before) = 2
    /\ Len(calib_records) = 1
    /\ calib_records[1] # build.before[1]
    /\ calib_records[1] # build.before[2]

\* ------------------------------------------------------- evaluation harness
Harness == call.fn = "eval_cosmos" /\ ret # NoCall

\* A teacher call that failed: an HTTP-level failure, a timeout, or a body
\* that is no response of the schema.
FailedCall(outcome) == outcome \notin {"accept", "reject"}

\* C21: a failed teacher call becomes an error flag on the sample's result
\* and never aborts the batch: the batch ends with one result per labeled
\* sample, in eval_results.json.
C21_FailedCallNeverAborts ==
    Harness =>
        /\ ret.pc # "raised"
        /\ \A k \in 1..Len(ret.results) :
              FailedCall(ret.outcomes[k]) => ret.results[k].cosmos_error
        /\ ret.pc = "done" =>
              /\ eval_results.exists
              /\ Len(eval_results.results) = Len(ret.labeled)
              /\ \A k \in 1..Len(ret.labeled) :
                    eval_results.results[k].clip_id = ret.labeled[k].clip_id

\* The results a count is made over.
Counted(results, P(_)) ==
    Cardinality({k \in 1..Len(results) : ~results[k].cosmos_error /\ P(results[k])})

\* C22: for each gesture type G the metrics count, over the results without
\* teacher error, TP, FN, FP and TN as defined, each result in at most one
\* of the four, and precision, recall and F1 are 0.0 on a zero denominator.
C22_MetricsCountAsDefined ==
    (Harness /\ ret.pc = "done") =>
        \A g \in DOMAIN ret.metrics :
            LET m == ret.metrics[g]
                Fired(r) == r.cosmos_intentional = "true" /\ r.cosmos_final_intent = g
                Mine(r) == r.user_label = TPLabelOf(g)
                IsTP(r) == Mine(r) /\ Fired(r)
                IsFN(r) == Mine(r) /\ ~Fired(r)
                IsFP(r) == Fired(r) /\ ~Mine(r)
                IsTN(r) == r.user_label \in NegLabels /\ r.cosmos_intentional = "false"
            IN /\ m.tp = Counted(ret.results, IsTP)
               /\ m.fn = Counted(ret.results, IsFN)
               /\ m.fp = Counted(ret.results, IsFP)
               /\ m.tn = Counted(ret.results, IsTN)
               /\ m.tp + m.fn + m.fp + m.tn <= Len(ret.results)
               /\ m.tp + m.fp = 0 => m.precision[1] = 0
               /\ m.tp + m.fn = 0 => m.recall[1] = 0
               /\ m.tp = 0 => m.f1[1] = 0

\* C23: the harness sleeps after every teacher call that returned without
\* error, before the next call, and does not sleep after a call that
\* returned an error.
C23_SleepAfterNonErrorOnly ==
    Harness =>
        /\ \A k \in 1..(Len(ret.trace) - 1) :
              /\ ret.trace[k] = "call_ok" => ret.trace[k + 1] = "sleep"
              /\ ret.trace[k] = "call_error" => ret.trace[k + 1] # "sleep"
        /\ (ret.pc \in {"send", "done"} /\ ret.trace # <<>>) =>
              ret.trace[Len(ret.trace)] # "call_ok"

C23_Witness ==
    /\ Harness
    /\ ret.pc = "done"
    /\ ret.trace = <<"call_ok", "sleep", "call_error", "call_ok", "sleep">>

\* C25: samples are merged by identity: each sample identity is sent to the
\* teacher at most once in a batch and has at most one result.
C25_OneCallPerIdentity ==
    Harness =>
        /\ \A j, k \in 1..Len(ret.sent) : ret.sent[j] = ret.sent[k] => j = k
        /\ \A j, k \in 1..Len(ret.results) :
              ret.results[j].clip_id = ret.results[k].clip_id => j = k

\* ------------------------------------------------------------ label distiller
\* The one record of a log of one file and one line.
OnlyRecord == call.log_files[1][1]

IsOneRecordLog ==
    /\ call.fn = "load_labeled_events"
    /\ ret # NoCall
    /\ Len(call.log_files) = 1
    /\ Len(call.log_files[1]) = 1
    /\ OnlyRecord.kind = "object"

\* C14: a log record becomes a Labeled Event exactly if it has a feature bag
\* and a teacher response, no schema-validity flag of it is false, the
\* confidence is at least 0.75, the reason category is given and not
\* "unknown", and the intentional flag and a gesture type are present; the
\* event's gesture type is the bag's, else the proposed intent.
C14_EventIffFiltersPass ==
    IsOneRecordLog =>
        LET record == OnlyRecord
            passes ==
                /\ record.features = "bag"
                /\ record.response_json = "object"
                /\ record.schema_valid # "false"
                /\ record.resp_schema_valid # "false"
                /\ record.confidence \in {"0.75", "0.9"}
                /\ record.reason_category \notin {"absent", "unknown"}
                /\ record.intentional # "absent"
                /\ (record.gestureType # "absent" \/ record.proposed_intent # "absent")
        IN /\ passes <=> (~ret.raised /\ Len(ret.events) = 1)
           /\ ~passes => ret.events = <<>>
           /\ Len(ret.events) = 1 =>
                 ret.events[1].gesture_type =
                     IF record.gestureType # "absent" THEN record.gestureType
                     ELSE record.proposed_intent

\* C15: a Labeled Event has label 1 exactly if the teacher said intentional
\* with the event's gesture type as final intent.
C15_LabelIffIntentMatches ==
    IsOneRecordLog =>
        \A i \in 1..Len(ret.events) :
            ret.events[i].label = 1 <=>
                /\ OnlyRecord.intentional = "true"
                /\ OnlyRecord.final_intent = ret.events[i].gesture_type

\* The events of the lines of a log, each line taken on its own.
RECURSIVE EventsLineByLine(_)
EventsLineByLine(lines) ==
    IF lines = <<>> THEN <<>>
    ELSE load_labeled_events(<<(<<Head(lines)>>)>>).events \o EventsLineByLine(Tail(lines))

\* C16: the scan ends without an exception whatever the lines are, and
\* yields the events of all lines that yield one, in order.
C16_ScanNeverAborts ==
    (call.fn = "load_labeled_events" /\ ret # NoCall) =>
        /\ ~ret.raised
        /\ ret.events = EventsLineByLine(AllLines(call.log_files))

\* ------------------------------------------------------------------- trainer
\* C17: a run over fewer than 20 Labeled Events ends with exit status 0,
\* has trained no model, and leaves the versioned artifacts, the current
\* artifact and the audit log as it found them.
C17_SampleGateStopsCleanly ==
    (tpc = "exit" /\ tr.n_events < 20) =>
        /\ tr.outcome = "aborted"
        /\ tr.exit_code = 0
        /\ tr.new_model = None
        /\ tr.version_num = None
        /\ Registry = pre

C17_Witness ==
    /\ tpc = "exit"
    /\ tr.n_events = 19
    /\ tr.outcome = "aborted"
    /\ Len(passed) = 2
    /\ current.state = "complete"
    /\ Len(training_log.records) = 2

\* A step of the training run.
TrainerStep == tpc # "idle" \/ tpc' # "idle"

CheckedBundles ==
    {versioned[v].data : v \in {w \in VersionNames :
                                   /\ versioned[w].state = "complete"
                                   /\ versioned[w].data.calib_accuracy # None}}

\* C27: the calibration accuracy of the current model is never more than
\* 0.02 below that of any model that was current before it.
C27_NoAccumulatedRegression ==
    (tpc = "idle" /\ current.state = "complete"
                  /\ current.data.calib_accuracy # None) =>
        \A b \in CheckedBundles :
            CalibAcc(current.data.model) >= CalibAcc(b.model) - REGRESS_LIMIT

\* C28: no step of a training run changes a versioned artifact that exists,
\* and the versions of the bundles published one after another, as the audit
\* log lists them, increase strictly; also after an older versioned artifact
\* was removed.
C28_NeverOverwritesVersioned ==
    [][TrainerStep =>
          /\ \A v \in VersionNames :
                versioned[v].state # "absent" => versioned'[v] = versioned[v]
          /\ \A j, k \in 1..Len(training_log'.records) :
                j < k => training_log'.records[j].version
                            < training_log'.records[k].version]_vars

\* The versioned artifacts there are.
VersionsOnDisk == {v \in VersionNames : versioned[v].state # "absent"}

\* C29: when a training run has finished (published, rejected by the gate or
\* stopped by the sample gate) there are as many audit records as versioned
\* artifacts, the last audit record has the version of the current artifact,
\* and the current artifact holds the bundle of the highest-numbered
\* versioned artifact.
C29_RegistryConsistentAfterRun ==
    (tpc = "exit" /\ tr.outcome \in {"published", "blocked", "aborted"}) =>
        /\ Len(training_log.records) = Cardinality(VersionsOnDisk)
        /\ (training_log.records = <<>>) = (current.state = "absent")
        /\ training_log.records # <<>> =>
              /\ current.state = "complete"
              /\ training_log.records[Len(training_log.records)].version
                    = current.data.version
              /\ \E v \in VersionsOnDisk :
                    /\ \A w \in VersionsOnDisk : w <= v
                    /\ versioned[v] = CompleteFile(current.data)

C29_Witness ==
    /\ tpc = "exit"
    /\ tr.outcome = "blocked"
    /\ Len(training_log.records) = 2
    /\ current.data.version = 2

\* C30: a verify request whose teacher response failed schema validation,
\* logged with schema_valid false beside a non-empty response_json, yields
\* no Labeled Event when the log is distilled.
C30_SchemaInvalidNeverLabeled ==
    (call.fn = "verify" /\ ret # NoCall /\ ret.pc = "distilled") =>
        \A k \in 1..Len(ret.log) :
            (ret.log[k].schema_valid = "false" /\ ret.log[k].response_json = "object") =>
                \A j \in 1..Len(ret.events) : ret.events[j].event_id # ret.log[k].event_id

\* C32: every /verify request appends exactly one record to the verifier's
\* log, whatever its outcome.
C32_OneRecordPerRequest ==
    (call.fn = "verify" /\ ret # NoCall) => Len(ret.log) = 1

\* C18: the family returned has the highest test accuracy, and of two
\* families with the same accuracy LogisticRegression is returned.
C18_PicksBestFirstOnTie ==
    (call.fn = "train_and_pick" /\ ret # NoCall) =>
        /\ ret.best_acc = call.accs[1] \/ ret.best_acc = call.accs[2]
        /\ ret.best_acc >= call.accs[1]
        /\ ret.best_acc >= call.accs[2]
        /\ call.accs[1] > call.accs[2] => ret.best_name = "LogisticRegression"
        /\ call.accs[2] > call.accs[1] => ret.best_name = "RandomForest"
        /\ call.accs[1] = call.accs[2] => ret.best_name = "LogisticRegression"

C18_Witness ==
    /\ call.fn = "train_and_pick"
    /\ ret # NoCall
    /\ call.accs[1] = call.accs[2]
    /\ call.accs[1] > 0
    /\ ret.best_name = "LogisticRegression"

\* ------------------------------------------------------------- feature codec
Encoded == call.fn = "encode" /\ ret # NoCall

\* The number a bag holds under a name; 0.0 if it holds none.
ValueOrZero(features, n) ==
    IF n \notin DOMAIN features THEN 0
    ELSE IF features[n] = "2" THEN 2000000000 ELSE 100000000

\* The same number in single precision.
Single(x) == IF x = 100000000 THEN 100000001 ELSE x

\* The columns of the vector, by name.
NamedColumns ==
    <<"swipeDisplacement", "swipeDuration", "peakVelocity", "fingersExtended",
      "handSide", "handSpan", "wristX", "wristY", "palmFacing", "wristVelocityX",
      "wristVelocityY", "stateConfidence">>
KnownGestures == <<"OPEN_MENU", "CLOSE_MENU", "SWITCH_RIGHT", "SWITCH_LEFT">>

\* A vector is the encoding of a bag and a gesture type: twelve named
\* values, then four one-hot columns.
IsEncodingOf(vec, features, gesture_type, single) ==
    /\ DOMAIN vec = 1..16
    /\ \A i \in 1..12 :
          vec[i] = IF single THEN Single(ValueOrZero(features, NamedColumns[i]))
                   ELSE ValueOrZero(features, NamedColumns[i])
    /\ \A i \in 1..4 :
          vec[12 + i] = IF gesture_type = KnownGestures[i] THEN 1000000000 ELSE 0
    /\ (\A i \in 1..4 : gesture_type # KnownGestures[i]) =>
           \A i \in 13..16 : vec[i] = 0

\* C19: for every bag and every gesture type each encoder returns a vector
\* of 16 columns: the twelve named features in their order, 0.0 for each
\* one the bag does not hold, then the one-hot columns, all zero for a
\* gesture type that is not one of the four.
C19_EncodeTotalFixedLength ==
    Encoded =>
        /\ IsEncodingOf(ret.row, call.features, call.gesture_type, FALSE)
        /\ Len(ret.vector) = 1
        /\ IsEncodingOf(ret.vector[1], call.features, call.gesture_type, TRUE)

C19_Witness ==
    /\ Encoded
    /\ call.gesture_type = "WAVE"
    /\ DOMAIN call.features = {"wristX", "gestureType"}
    /\ ret.row[7] = 2000000000
    /\ ret.row[1] = 0

\* The name of the one-hot column of a gesture type.
GestureColumnNames ==
    <<"gesture_OPEN_MENU", "gesture_CLOSE_MENU", "gesture_SWITCH_RIGHT",
      "gesture_SWITCH_LEFT">>

\* C20: the training matrix and the serving vector hold the same values in
\* the same columns, and column by column these are the values of the names
\* the bundle lists as its feature_names, for the bundle of every version.
C20_EncodersAgreeWithBundle ==
    Encoded =>
        /\ ret.vector = ret.matrix
        /\ Len(ret.vector) = 1
        /\ \A n \in VersionNames :
              LET names == ModelBundle(n).feature_names
              IN /\ Len(names) = Len(ret.row)
                 /\ Len(names) = Len(ret.vector[1])
                 /\ \A i \in 1..Len(names) :
                       \/ /\ names[i] \in {NamedColumns[j] : j \in 1..12}
                          /\ ret.row[i] = ValueOrZero(call.features, names[i])
                          /\ ret.vector[1][i] =
                                Single(ValueOrZero(call.features, names[i]))
                       \/ \E j \in 1..4 :
                             /\ names[i] = GestureColumnNames[j]
                             /\ ret.row[i] =
                                   IF call.gesture_type = KnownGestures[j]
                                   THEN 1000000000 ELSE 0
                             /\ ret.vector[1][i] = ret.row[i]

C20_Witness ==
    /\ Encoded
    /\ call.gesture_type = "SWITCH_LEFT"
    /\ DOMAIN call.features = {"swipeDuration", "stateConfidence"}
    /\ ret.row[2] = 100000000
    /\ ret.matrix[1][2] = 100000001
    /\ ret.vector[1][16] = 1000000000

TrainNext ==
    \/ EvalRun
    \/ CalibrationBuild
    \/ Trainer

ServeNext ==
    \/ Trainer
    \/ Service

CrashNext ==
    \/ EvalRun
    \/ CalibrationBuild
    \/ Trainer
    \/ Killed

\* The evaluation harness and the calibration builder, over the full corpus.
InitBuild ==
    /\ training_inputs = [k \in 1..MaxRuns |-> [n_events |-> MIN_SAMPLES, fit |-> 1]]
    /\ STUDENT_MODE = "shadow"
    /\ corpus = "full"
    /\ call = NoCall
    /\ InitState

BuildNext ==
    \/ EvalRun
    \/ CalibrationBuild

SpecBuild == InitBuild /\ [][BuildNext]_vars

\* A function applied on its own, to each of its inputs.
InitCall(calls) ==
    /\ training_inputs = [k \in 1..MaxRuns |-> [n_events |-> MIN_SAMPLES, fit |-> 1]]
    /\ STUDENT_MODE = "shadow"
    /\ corpus = "few"
    /\ call \in calls
    /\ InitState

\* The label distiller over logs.
InitDistill ==
    InitCall({[fn |-> "load_labeled_events", log_files |-> l] : l \in LogInputs})

DistillNext == LoadLabeledEvents

SpecDistill == InitDistill /\ [][DistillNext]_vars

\* The choice between the fitted families, for every pair of test scores.
InitPick ==
    InitCall({[fn |-> "train_and_pick", accs |-> a] :
                 a \in [1..Len(Families) -> 0..NumTest]})

PickNext == TrainAndPick

SpecPick == InitPick /\ [][PickNext]_vars

\* The two encoders, over bags and gesture types.
InitCodec ==
    InitCall({[fn |-> "encode", features |-> f, gesture_type |-> g] :
                 f \in FeatureBags, g \in GestureTypeValues})

CodecNext == Encode

SpecCodec == InitCodec /\ [][CodecNext]_vars

\* One batch of the evaluation harness, over every small set of clip files
\* and every answer of the teacher.
InitEval ==
    InitCall({[fn |-> "eval_cosmos", extra_path |-> e, clip_files |-> c,
               session_files |-> f] :
                 e \in BOOLEAN, c \in SeqsUpTo(ClipValues, MaxClipFiles),
                 f \in SeqsUpTo(ClipValues, MaxSessionClips)})

EvalNext ==
    \/ EvalLoad
    \/ EvalCall
    \/ EvalReport
    \/ EvalWrite

SpecEval == InitEval /\ [][EvalNext]_vars

\* One verify request, for every request and every teacher response, and the
\* distillation of the log it leaves.
InitVerify ==
    InitCall({[fn |-> "verify", req |-> q, response_json |-> r] :
                 q \in VerifyRequests, r \in TeacherResponses})

VerifyNext ==
    \/ Verify
    \/ DistillVerifierLog

SpecVerify == InitVerify /\ [][VerifyNext]_vars

\* The first bundle a training run publishes without a calibration set.
FirstBundle == [model |-> 1, version |-> 1, calib_accuracy |-> None,
                feature_names |-> feature_col_names]

\* The service with v1 loaded: the first training run has published v1 and a
\* status request has loaded it.  Of the runs to come only the last has
\* enough events to train.
InitLoaded ==
    /\ training_inputs = [k \in 1..MaxRuns |->
                            [n_events |-> IF k = 1 \/ k = MaxRuns THEN MIN_SAMPLES
                                          ELSE MIN_SAMPLES - 1,
                             fit |-> ((k - 1) % NumClassifiers) + 1]]
    /\ STUDENT_MODE = "active"
    /\ corpus = "few"
    /\ call = NoCall
    /\ versioned = [v \in VersionNames |->
                      IF v = 1 THEN CompleteFile(FirstBundle) ELSE AbsentFile]
    /\ current = [state |-> "complete", data |-> FirstBundle, mtime |-> 2]
    /\ training_log = [state |-> "complete",
                       records |-> <<[version |-> 1, model |-> 1,
                                      calib_accuracy |-> None, calib_acc_old |-> None]>>]
    /\ calibration = "absent"
    /\ tpc = "idle"
    /\ tr = NoRun
    /\ runs = 1
    /\ passed = <<1>>
    /\ pre = Registry
    /\ model = 1
    /\ model_mtime = 2
    /\ model_version = 1
    /\ total_preds = 0
    /\ nreq = 0
    /\ th = [t \in Threads |-> IdleThread]
    /\ resp = [t \in Threads |-> NoResponse]
    /\ eval_results = [exists |-> FALSE, results |-> <<>>]
    /\ calib_records = <<>>
    /\ build = NoBuild
    /\ ret = NoCall

\* The service with a model loaded, the current artifact removed and
\* published again beside it.
RemoveNext ==
    \/ Trainer
    \/ Service
    \/ RemoveCurrent

SpecRemove == InitLoaded /\ [][RemoveNext]_vars

\* The training job, older versioned artifacts removed between runs.
PruneNext ==
    \/ Trainer
    \/ RemoveVersioned

SpecPrune == Init /\ [][PruneNext]_vars

\* The training job alone, the calibration set rebuilt between runs.
Spec == Init /\ [][TrainNext]_vars

\* The training job and the service's request threads.
SpecServe == InitServe /\ [][ServeNext]_vars

\* The training job, killed at any point.
SpecCrash == Init /\ [][CrashNext]_vars
====
